---- MODULE Spec2Model ----
(***************************************************************************)
(* A model of the serialization layer of the foodgram backend              *)
(* (backend/api/serializers.py): the recipe assembly workflow of           *)
(* RecipeCreateSerializer over the relational store, the update and read   *)
(* variants of the recipe serializer, the authenticated user               *)
(* representation, and the base64 image field.                             *)
(*                                                                         *)
(* The store runs in autocommit mode: the serializer opens no transaction, *)
(* so every ORM call (get, create) is one atomic statement and requests    *)
(* interleave between statements.                                          *)
(***************************************************************************)
EXTENDS Integers, Sequences, FiniteSets, TLC

(* ------------------------------ bounds --------------------------------- *)

\* Requests handled in one behaviour.
MaxRequests == 2
\* Tag rows and Ingredient rows the store starts with.
NumTags == 2
NumIngredients == 2
\* Amounts a request may name: 1..MaxAmount.
MaxAmount == 2
\* Longest tag list and ingredient list of a request handled alone.
MaxTagsPerRequest == 1
MaxIngredientsPerRequest == 2
\* Longest ingredient list of a request when requests overlap.
MaxIngredientsOverlapped == 1
\* Administrative deletions (of a Tag or an Ingredient) in one behaviour.
MaxDeletes == 1

Requests == 1..MaxRequests
TagIds == 1..NumTags
IngredientIds == 1..NumIngredients
Amounts == 1..MaxAmount

Users == {"alice", "bob"}
Anonymous == "anonymous"
Requesters == Users \cup {Anonymous}

\* request.user.is_authenticated
is_authenticated(user) == user \in Users

TagNames == <<"breakfast", "lunch", "dinner", "supper">>

SeqsUpTo(S, n) == UNION {[1..k -> S] : k \in 0..n}

NoRequest ==
    [kind |-> "none", user |-> Anonymous, target |-> 0, tagsKey |-> FALSE,
     tags |-> <<>>, ingredients |-> <<>>, image |-> "omitted"]
NoData == [tags |-> <<>>, ingredients |-> <<>>, image |-> "omitted"]

(* ------------------------------- state --------------------------------- *)

VARIABLES
    tags,         \* Tag rows            [id, name, slug]
    ingredients,  \* Ingredient rows     [id]
    recipes,      \* Recipe rows         [id, author, image]
    amounts,      \* AmountOfIngredient  [id, ingredient, amount]
    tagLinks,     \* TagInRecipe rows    [id, tag, recipe]
    ingLinks,     \* IngredientInRecipe  [id, amount_of_ingredient, recipe]
    nextId,       \* the tables' auto-increment primary keys
    serial,       \* TRUE: one request at a time; FALSE: requests overlap
    deletes,      \* administrative deletions so far
    pc,           \* each request's position in its handler
    req,          \* each request's payload and requester
    data,         \* each request's validated_data
    recipe,       \* create(): the local `recipe` (its id, 0 before line 179)
    idx,          \* create(): position in the loop over tags / ingredients
    current,      \* create(): current_tag / current_ingredient (a primary key)
    outcome,      \* how each request ended
    created,      \* history: the rows each request inserted, as <<table, id>>
    imgData,      \* image field: the value handed to to_internal_value
    imgParts,     \* history: the parts the value was put together from
    imgResult,    \* image field: what to_internal_value returned or raised
    view,         \* rendering: the serializer, the instance and the requester
    response      \* rendering: what to_representation returned or raised

store == <<tags, ingredients, recipes, amounts, tagLinks, ingLinks>>
locals == <<pc, req, data, recipe, idx, current, outcome, created>>
imageField == <<imgData, imgParts, imgResult>>
rendering == <<view, response>>
\* What no step of a request touches.
others == <<serial, imageField, rendering>>
vars == <<tags, ingredients, recipes, amounts, tagLinks, ingLinks, nextId,
          serial, deletes, pc, req, data, recipe, idx, current, outcome,
          created, imgData, imgParts, imgResult, view, response>>

(* --------------------------- wire payloads ----------------------------- *)

\* A tag as a client sends it: a bare primary key ...
TagPk(t) == [form |-> "pk", pk |-> t, name |-> "", slug |-> ""]
\* ... and as TagsInRecipeSerializer renders it: {id, name, slug}.
TagObject(row) ==
    [form |-> "object", pk |-> row.id, name |-> row.name, slug |-> row.slug]

\* An ingredient entry {id, amount} (name and measurement_unit are read-only
\* and ignored on input).
IngredientEntry(g, a) == [id |-> g, amount |-> a]

\* Primary keys a client may name: those of the initial rows (a row may have
\* been deleted by the time the request arrives).
PayloadTags == SeqsUpTo({TagPk(t) : t \in TagIds}, MaxTagsPerRequest)

\* The 'tags' part of a payload: the key with a list, or no key at all.
PayloadTagParts ==
    {[tagsKey |-> TRUE, tags |-> ts] : ts \in PayloadTags}
    \cup {[tagsKey |-> FALSE, tags |-> <<>>]}

PayloadIngredients ==
    SeqsUpTo({IngredientEntry(g, a) : g \in IngredientIds, a \in Amounts},
             IF serial THEN MaxIngredientsPerRequest
                       ELSE MaxIngredientsOverlapped)

\* The image field on the wire: "datauri" (a data URI), "url" (the URL string
\* a rendered recipe carries) or "omitted".

(* ---------------------------- validation ------------------------------- *)

\* RecipeCreateSerializer.to_internal_value, line 170: data.pop('tags') raises
\* KeyError when the payload has no 'tags' key.
HasTagsKey(payload) == payload.tagsKey

\* RecipeCreateSerializer.to_internal_value, line 171: each element of the
\* incoming tags list, whatever it is, is wrapped into {'id': element}.
to_internal_value(payloadTags) ==
    [i \in 1..Len(payloadTags) |-> [id |-> payloadTags[i]]]

\* TagsInRecipeSerializer.id, a PrimaryKeyRelatedField over Tag.objects.all():
\* a bare primary key of an existing row resolves to that row; anything else
\* (an unknown key, an object in place of a key) is a validation error.
TagFieldValid(wrapped, table) ==
    /\ wrapped.id.form = "pk"
    /\ \E row \in table : row.id = wrapped.id.pk

TagInstance(wrapped, table) == CHOOSE row \in table : row.id = wrapped.id.pk

\* IngredientInRecipeSerializer.id, a PrimaryKeyRelatedField over
\* Ingredient.objects.all() with source 'ingredient.id'.
IngredientFieldValid(entry, table) == \E row \in table : row.id = entry.id

IngredientInternal(entry) == [ingredient |-> entry.id, amount |-> entry.amount]

\* RecipeCreateSerializer.validate_ingredients: TRUE when the value is
\* returned, FALSE when serializers.ValidationError is raised.
validate_ingredients(value) == value # <<>>

\* Base64ImageField as declared on the serializer: `required` is TRUE on
\* RecipeCreateSerializer and FALSE on RecipeUpdateSerializer. A data URI
\* decodes to a file; a URL string is not a file; an absent field is an
\* error only when required.
ImageFieldValid(image, required) ==
    CASE image = "datauri" -> TRUE
      [] image = "omitted" -> ~required
      [] OTHER -> FALSE

\* Serializer.is_valid(): every field is validated and the request is
\* rejected with one ValidationError when any of them failed.
is_valid(payload, imageRequired) ==
    LET wrapped == to_internal_value(payload.tags) IN
    /\ \A i \in 1..Len(wrapped) : TagFieldValid(wrapped[i], tags)
    /\ \A i \in 1..Len(payload.ingredients) :
           IngredientFieldValid(payload.ingredients[i], ingredients)
    /\ validate_ingredients(payload.ingredients)
    /\ ImageFieldValid(payload.image, imageRequired)

validated_data(payload) ==
    LET wrapped == to_internal_value(payload.tags) IN
    [tags |-> [i \in 1..Len(wrapped) |-> TagInstance(wrapped[i], tags)],
     ingredients |-> [i \in 1..Len(payload.ingredients) |->
                        IngredientInternal(payload.ingredients[i])],
     image |-> payload.image]

(* --------------------------- request intake ---------------------------- *)

InFlight(r) == pc[r] \notin {"idle", "done"}

\* A request may start when it has not run yet and, in a serial run, no
\* other request is in flight. Requests are numbered in order of arrival.
MayStart(r) ==
    /\ pc[r] = "idle"
    /\ \A o \in Requests : o < r => pc[o] # "idle"
    /\ serial => \A o \in Requests : ~InFlight(o)

Finish(r, how) ==
    /\ pc' = [pc EXCEPT ![r] = "done"]
    /\ outcome' = [outcome EXCEPT ![r] = how]

Validate(r, payload, imageRequired) ==
    /\ req' = [req EXCEPT ![r] = payload]
    /\ CASE ~HasTagsKey(payload) ->
              /\ Finish(r, "KeyError")
              /\ UNCHANGED data
         [] HasTagsKey(payload) /\ is_valid(payload, imageRequired) ->
              /\ data' = [data EXCEPT ![r] = validated_data(payload)]
              /\ pc' = [pc EXCEPT ![r] = "validated"]
              /\ UNCHANGED outcome
         [] OTHER ->
              /\ Finish(r, "ValidationError")
              /\ UNCHANGED data
    /\ UNCHANGED <<store, nextId, others, deletes, recipe, idx, current,
                   created>>

\* POST: the payload goes through RecipeCreateSerializer.
SubmitCreate(r) ==
    /\ MayStart(r)
    /\ \E u \in Requesters, tp \in PayloadTagParts, gs \in PayloadIngredients :
          Validate(r, [kind |-> "create", user |-> u, target |-> 0,
                       tagsKey |-> tp.tagsKey, tags |-> tp.tags,
                       ingredients |-> gs, image |-> "datauri"],
                   TRUE)

(* ------------------------ the store's constraints ---------------------- *)

\* Tag: the primary key is unique and so is the slug.
TagConflict(row, new) == row.id = new.id \/ row.slug = new.slug

\* AmountOfIngredient: the ingredient foreign key must name an Ingredient
\* row; no constraint makes the (ingredient, amount) pair unique.
AmountConflict(entry) == ~\E row \in ingredients : row.id = entry.ingredient

(* -------------------- RecipeCreateSerializer.create -------------------- *)

Insert(r, table, id) == created' = [created EXCEPT ![r] = @ \cup {<<table, id>>}]

Fail(r, how) ==
    /\ Finish(r, how)
    /\ UNCHANGED <<store, nextId, others, deletes, req, data, recipe, idx,
                   current, created>>

\* Where create() goes once the tag loop is over: into the ingredient loop,
\* or to `return recipe` when there is nothing to loop over.
EnterIngredientLoop(r) ==
    IF Len(data[r].ingredients) > 0
      THEN /\ pc' = [pc EXCEPT ![r] = "amount_get"]
           /\ idx' = [idx EXCEPT ![r] = 1]
           /\ UNCHANGED outcome
      ELSE /\ Finish(r, "Created")
           /\ UNCHANGED idx

\* Line 179-180: Recipe.objects.create(author=request.user, **validated_data)
\* and the save() after it, which rewrites the same row. Assigning an
\* AnonymousUser to the author foreign key raises ValueError before any row
\* is written.
CreateRecipe(r) ==
    /\ pc[r] = "validated"
    /\ req[r].kind = "create"
    /\ IF ~is_authenticated(req[r].user)
         THEN Fail(r, "ValueError")
         ELSE /\ recipes' = recipes \cup
                     {[id |-> nextId.recipe, author |-> req[r].user,
                       image |-> r]}
              /\ nextId' = [nextId EXCEPT !.recipe = @ + 1]
              /\ recipe' = [recipe EXCEPT ![r] = nextId.recipe]
              /\ Insert(r, "Recipe", nextId.recipe)
              /\ IF Len(data[r].tags) > 0
                   THEN /\ pc' = [pc EXCEPT ![r] = "tag_get"]
                        /\ idx' = [idx EXCEPT ![r] = 1]
                        /\ UNCHANGED outcome
                   ELSE EnterIngredientLoop(r)
              /\ UNCHANGED <<tags, ingredients, amounts, tagLinks, ingLinks,
                             others, deletes, req, data, current>>

\* The tag of the current loop iteration: tag['id'].pk.
LoopTag(r) == data[r].tags[idx[r]].id

\* Line 183, get_or_create's first statement: Tag.objects.get(id=pk).
TagGet(r) ==
    /\ pc[r] = "tag_get"
    /\ IF \E row \in tags : row.id = LoopTag(r)
         THEN /\ current' = [current EXCEPT ![r] = LoopTag(r)]
              /\ pc' = [pc EXCEPT ![r] = "tag_link"]
         ELSE /\ pc' = [pc EXCEPT ![r] = "tag_create"]
              /\ UNCHANGED current
    /\ UNCHANGED <<store, nextId, others, deletes, req, data, recipe, idx,
                   outcome, created>>

\* The row get_or_create(id=pk) inserts when get() found nothing: only the
\* primary key is given, name and slug take the empty default.
BlankTag(pk) == [id |-> pk, name |-> "", slug |-> ""]

\* Line 183, get_or_create's second statement: Tag.objects.create(id=pk).
\* The insert violates a constraint (IntegrityError) when the key or the
\* empty slug is taken by now; get_or_create then looks the row up again.
TagCreate(r) ==
    /\ pc[r] = "tag_create"
    /\ IF \E row \in tags : TagConflict(row, BlankTag(LoopTag(r)))
         THEN /\ pc' = [pc EXCEPT ![r] = "tag_reget"]
              /\ UNCHANGED <<tags, current, created>>
         ELSE /\ tags' = tags \cup {BlankTag(LoopTag(r))}
              /\ current' = [current EXCEPT ![r] = LoopTag(r)]
              /\ Insert(r, "Tag", LoopTag(r))
              /\ pc' = [pc EXCEPT ![r] = "tag_link"]
    /\ UNCHANGED <<ingredients, recipes, amounts, tagLinks, ingLinks, nextId,
                   others, deletes, req, data, recipe, idx, outcome>>

\* Line 183, get_or_create after an IntegrityError: get() once more, and the
\* IntegrityError is re-raised when the row is still not there.
TagReget(r) ==
    /\ pc[r] = "tag_reget"
    /\ IF \E row \in tags : row.id = LoopTag(r)
         THEN /\ current' = [current EXCEPT ![r] = LoopTag(r)]
              /\ pc' = [pc EXCEPT ![r] = "tag_link"]
              /\ UNCHANGED <<store, nextId, others, deletes, req, data,
                             recipe, idx, outcome, created>>
         ELSE Fail(r, "IntegrityError")

\* Lines 184-187: TagInRecipe.objects.create(tag=current_tag, recipe=recipe).
\* The insert fails on its foreign key when the tag row is gone by now.
TagLink(r) ==
    /\ pc[r] = "tag_link"
    /\ IF ~\E row \in tags : row.id = current[r]
         THEN Fail(r, "IntegrityError")
         ELSE /\ tagLinks' = tagLinks \cup
                     {[id |-> nextId.tagLink, tag |-> current[r],
                       recipe |-> recipe[r]]}
              /\ nextId' = [nextId EXCEPT !.tagLink = @ + 1]
              /\ Insert(r, "TagInRecipe", nextId.tagLink)
              /\ IF idx[r] < Len(data[r].tags)
                   THEN /\ pc' = [pc EXCEPT ![r] = "tag_get"]
                        /\ idx' = [idx EXCEPT ![r] = @ + 1]
                        /\ UNCHANGED outcome
                   ELSE EnterIngredientLoop(r)
              /\ UNCHANGED <<tags, ingredients, recipes, amounts, ingLinks,
                             others, deletes, req, data, recipe, current>>

\* The ingredient entry of the current loop iteration.
LoopIngredient(r) == data[r].ingredients[idx[r]]

\* The lookup keyed by the ingredient alone, the amount forgotten.
AmountMatchesByIngredient(entry) ==
    {row \in amounts : row.ingredient = entry.ingredient}

\* Lines 191-194, the lookup of get_or_create: the AmountOfIngredient rows
\* with ingredient=ingredient['ingredient']['id'] and amount=ingredient['amount'].
AmountMatches(entry) ==
    {row \in amounts :
        row.ingredient = entry.ingredient /\ row.amount = entry.amount}

\* Line 191, get_or_create's first statement: get() returns the one matching
\* row, raises DoesNotExist (handled: create follows) on none and
\* MultipleObjectsReturned (not handled) on several.
AmountGet(r) ==
    /\ pc[r] = "amount_get"
    /\ LET found == AmountMatches(LoopIngredient(r)) IN
       CASE Cardinality(found) = 0 ->
              /\ pc' = [pc EXCEPT ![r] = "amount_create"]
              /\ UNCHANGED <<store, nextId, others, deletes, req, data,
                             recipe, idx, current, outcome, created>>
         [] Cardinality(found) = 1 ->
              /\ current' = [current EXCEPT ![r] = (CHOOSE row \in found : TRUE).id]
              /\ pc' = [pc EXCEPT ![r] = "ingredient_link"]
              /\ UNCHANGED <<store, nextId, others, deletes, req, data,
                             recipe, idx, outcome, created>>
         [] OTHER -> Fail(r, "MultipleObjectsReturned")

\* Line 191, get_or_create's second statement: create(ingredient=, amount=).
\* The insert fails on its foreign key when the Ingredient row is gone.
AmountCreate(r) ==
    /\ pc[r] = "amount_create"
    /\ LET entry == LoopIngredient(r) IN
       IF AmountConflict(entry)
         THEN /\ pc' = [pc EXCEPT ![r] = "amount_reget"]
              /\ UNCHANGED <<amounts, nextId, current, created>>
         ELSE /\ amounts' = amounts \cup
                     {[id |-> nextId.amount, ingredient |-> entry.ingredient,
                       amount |-> entry.amount]}
              /\ nextId' = [nextId EXCEPT !.amount = @ + 1]
              /\ current' = [current EXCEPT ![r] = nextId.amount]
              /\ Insert(r, "AmountOfIngredient", nextId.amount)
              /\ pc' = [pc EXCEPT ![r] = "ingredient_link"]
    /\ UNCHANGED <<tags, ingredients, recipes, tagLinks, ingLinks, others,
                   deletes, req, data, recipe, idx, outcome>>

\* Line 191, get_or_create after an IntegrityError: get() once more.
AmountReget(r) ==
    /\ pc[r] = "amount_reget"
    /\ LET found == AmountMatches(LoopIngredient(r)) IN
       CASE Cardinality(found) = 0 -> Fail(r, "IntegrityError")
         [] Cardinality(found) = 1 ->
              /\ current' = [current EXCEPT ![r] = (CHOOSE row \in found : TRUE).id]
              /\ pc' = [pc EXCEPT ![r] = "ingredient_link"]
              /\ UNCHANGED <<store, nextId, others, deletes, req, data,
                             recipe, idx, outcome, created>>
         [] OTHER -> Fail(r, "MultipleObjectsReturned")

\* Lines 196-199: IngredientInRecipe.objects.create(amount_of_ingredient=
\* current_ingredient, recipe=recipe), then the next iteration or line 200,
\* `return recipe`.
IngredientLink(r) ==
    /\ pc[r] = "ingredient_link"
    /\ IF ~\E row \in amounts : row.id = current[r]
         THEN Fail(r, "IntegrityError")
         ELSE /\ ingLinks' = ingLinks \cup
                     {[id |-> nextId.ingLink,
                       amount_of_ingredient |-> current[r],
                       recipe |-> recipe[r]]}
              /\ nextId' = [nextId EXCEPT !.ingLink = @ + 1]
              /\ Insert(r, "IngredientInRecipe", nextId.ingLink)
              /\ IF idx[r] < Len(data[r].ingredients)
                   THEN /\ pc' = [pc EXCEPT ![r] = "amount_get"]
                        /\ idx' = [idx EXCEPT ![r] = @ + 1]
                        /\ UNCHANGED outcome
                   ELSE /\ Finish(r, "Created")
                        /\ UNCHANGED idx
              /\ UNCHANGED <<tags, ingredients, recipes, amounts, tagLinks,
                             others, deletes, req, data, recipe, current>>

(* ----------------------- rendering a recipe ---------------------------- *)

RECURSIVE SortById(_)
SortById(S) ==
    IF S = {} THEN <<>>
    ELSE LET first == CHOOSE x \in S : \A y \in S : x.id <= y.id
         IN <<first>> \o SortById(S \ {first})

TagRow(pk) == CHOOSE row \in tags : row.id = pk
AmountRow(pk) == CHOOSE row \in amounts : row.id = pk

\* The recipe's tags through TagsInRecipeSerializer: {id, name, slug} each.
RenderTags(recipeId) ==
    LET links == SortById({l \in tagLinks : l.recipe = recipeId})
    IN [i \in 1..Len(links) |-> TagObject(TagRow(links[i].tag))]

\* The recipe's ingredients through IngredientInRecipeSerializer:
\* {id, name, measurement_unit, amount} each, id being the ingredient's key.
RenderIngredients(recipeId) ==
    LET links == SortById({l \in ingLinks : l.recipe = recipeId})
    IN [i \in 1..Len(links) |->
          IngredientEntry(AmountRow(links[i].amount_of_ingredient).ingredient,
                          AmountRow(links[i].amount_of_ingredient).amount)]

(* ---------------------- RecipeUpdateSerializer ------------------------- *)

\* PATCH with a client-written payload: the same fields as on creation, the
\* image optional (line 221).
SubmitUpdate(r) ==
    /\ MayStart(r)
    /\ \E u \in Users, target \in recipes, tp \in PayloadTagParts,
          gs \in PayloadIngredients, im \in {"datauri", "omitted"} :
          Validate(r, [kind |-> "update", user |-> u, target |-> target.id,
                       tagsKey |-> tp.tagsKey, tags |-> tp.tags,
                       ingredients |-> gs, image |-> im], FALSE)

\* PATCH with the recipe's own rendered representation sent back unchanged:
\* tags as objects, ingredients as objects, the image as its URL.
SubmitRoundTrip(r) ==
    /\ MayStart(r)
    /\ \E u \in Users, target \in recipes :
          Validate(r, [kind |-> "roundtrip", user |-> u, target |-> target.id,
                       tagsKey |-> TRUE, tags |-> RenderTags(target.id),
                       ingredients |-> RenderIngredients(target.id),
                       image |-> "url"], FALSE)

\* serializer.save() on an existing instance. RecipeUpdateSerializer (lines
\* 220-221) inherits create() and declares no update(), so the framework's
\* ModelSerializer.update runs; it asserts that validated_data holds no list
\* or dict under a nested serializer field. 'tags' always does (line 170
\* requires the key and line 171 makes it a list): AssertionError, nothing
\* written.
UpdateRecipe(r) ==
    /\ pc[r] = "validated"
    /\ req[r].kind \in {"update", "roundtrip"}
    /\ Fail(r, "AssertionError")

(* --------------------- administrative deletions ------------------------ *)

\* A Tag row is deleted; its TagInRecipe rows go with it (ON DELETE CASCADE).
DeleteTag(t) ==
    /\ deletes < MaxDeletes
    /\ \E row \in tags : row.id = t
    /\ tags' = {row \in tags : row.id # t}
    /\ tagLinks' = {l \in tagLinks : l.tag # t}
    /\ deletes' = deletes + 1
    /\ UNCHANGED <<ingredients, recipes, amounts, ingLinks, nextId, others,
                   locals>>

\* An Ingredient row is deleted; its AmountOfIngredient rows and their
\* IngredientInRecipe rows go with it.
DeleteIngredient(g) ==
    /\ deletes < MaxDeletes
    /\ \E row \in ingredients : row.id = g
    /\ ingredients' = {row \in ingredients : row.id # g}
    /\ amounts' = {row \in amounts : row.ingredient # g}
    /\ ingLinks' = {l \in ingLinks :
                      \E row \in amounts :
                         row.id = l.amount_of_ingredient /\ row.ingredient # g}
    /\ deletes' = deletes + 1
    /\ UNCHANGED <<tags, recipes, tagLinks, nextId, others, locals>>

(* --------------------------- Base64ImageField -------------------------- *)

\* Decoded bytes an image may hold: at most MaxBytes of them.
MaxBytes == 3
\* Longest MIME subtype, in characters.
MaxExtLen == 2

\* Strings are sequences of one-character strings.
DataImage == <<"d", "a", "t", "a", ":", "i", "m", "a", "g", "e">>
Base64Sep == <<";", "b", "a", "s", "e", "6", "4", ",">>
Slash == <<"/">>
TempDot == <<"t", "e", "m", "p", ".">>

\* str.startswith
startswith(s, prefix) ==
    /\ Len(s) >= Len(prefix)
    /\ SubSeq(s, 1, Len(prefix)) = prefix

\* str.find, 1-based: where sep first occurs in s, 0 when it does not.
Find(s, sep) ==
    LET hits == {i \in 1..(Len(s) - Len(sep) + 1) :
                    SubSeq(s, i, i + Len(sep) - 1) = sep}
    IN IF hits = {} THEN 0 ELSE CHOOSE i \in hits : \A j \in hits : i <= j

\* str.split(sep): the pieces between the occurrences of sep, left to right.
RECURSIVE split(_, _)
split(s, sep) ==
    LET i == Find(s, sep) IN
    IF i = 0 THEN <<s>>
    ELSE <<SubSeq(s, 1, i - 1)>> \o split(SubSeq(s, i + Len(sep), Len(s)), sep)

\* The base64 alphabet; a character's value is its position less one.
B64Alphabet ==
    <<"A", "B", "C", "D", "E", "F", "G", "H", "I", "J", "K", "L", "M", "N", "O", "P",
      "Q", "R", "S", "T", "U", "V", "W", "X", "Y", "Z", "a", "b", "c", "d", "e", "f",
      "g", "h", "i", "j", "k", "l", "m", "n", "o", "p", "q", "r", "s", "t", "u", "v",
      "w", "x", "y", "z", "0", "1", "2", "3", "4", "5", "6", "7", "8", "9", "+", "/">>

B64Value(c) == (CHOOSE i \in 1..64 : B64Alphabet[i] = c) - 1

IsB64Char(c) == \E i \in 1..64 : B64Alphabet[i] = c

\* Whether base64.b64decode accepts s, a string over the alphabet and '=':
\* whole groups of four characters, '=' only as the last one or two
\* characters of the last group (binascii.Error, incorrect padding, otherwise).
B64Valid(s) ==
    /\ Len(s) % 4 = 0
    /\ \A i \in 1..Len(s) :
          \/ IsB64Char(s[i])
          \/ /\ s[i] = "="
             /\ i >= Len(s) - 1
             /\ i = Len(s) - 1 => s[Len(s)] = "="

\* One group of four characters to its one, two or three bytes.
DecodeGroup(g) ==
    LET v(i) == IF g[i] = "=" THEN 0 ELSE B64Value(g[i])
        bits == v(1) * 262144 + v(2) * 4096 + v(3) * 64 + v(4)
        all == <<bits \div 65536, (bits \div 256) % 256, bits % 256>>
    IN CASE g[3] = "=" -> SubSeq(all, 1, 1)
         [] g[4] = "=" -> SubSeq(all, 1, 2)
         [] OTHER -> all

\* base64.b64decode on a string it accepts.
RECURSIVE b64decode(_)
b64decode(s) ==
    IF Len(s) = 0 THEN <<>>
    ELSE DecodeGroup(SubSeq(s, 1, 4)) \o b64decode(SubSeq(s, 5, Len(s)))

\* The encoder a client uses (RFC 4648), to build payloads from bytes.
EncodeGroup(b) ==
    LET n == Len(b)
        byte(i) == IF i <= n THEN b[i] ELSE 0
        bits == byte(1) * 65536 + byte(2) * 256 + byte(3)
        c(k) == B64Alphabet[((bits \div k) % 64) + 1]
    IN CASE n = 1 -> <<c(262144), c(4096), "=", "=">>
         [] n = 2 -> <<c(262144), c(4096), c(64), "=">>
         [] OTHER -> <<c(262144), c(4096), c(64), c(1)>>

RECURSIVE b64encode(_)
b64encode(b) ==
    IF Len(b) = 0 THEN <<>>
    ELSE IF Len(b) <= 3 THEN EncodeGroup(b)
    ELSE EncodeGroup(SubSeq(b, 1, 3)) \o b64encode(SubSeq(b, 4, Len(b)))

Str(text) == [type |-> "str", text |-> text, name |-> <<>>, bytes |-> <<>>]
\* ContentFile(bytes, name=name), and an uploaded file alike.
ContentFile(bytes, name) ==
    [type |-> "file", text |-> <<>>, name |-> name, bytes |-> bytes]

Returned(file) == [status |-> "file", file |-> file]
Raised(error) == [status |-> error, file |-> Str(<<>>)]

\* serializers.ImageField.to_internal_value, the parent's method: a value
\* that is no file, has no name or is empty is a ValidationError; so is a
\* file Django's ImageField does not take for an image (isImage is its
\* verdict on the content and on the name's extension); any other file is
\* returned as it came.
ImageField_to_internal_value(value, isImage) ==
    IF /\ value.type = "file"
       /\ value.name # <<>>
       /\ value.bytes # <<>>
       /\ isImage
      THEN Returned(value)
      ELSE Raised("ValidationError")

\* The extension taken from the first piece instead of the last: [0].
ExtensionFirstPiece(format) == split(format, Slash)[1]

\* Line 38: ext = format.split('/')[-1]
Extension(format) ==
    LET pieces == split(format, Slash) IN pieces[Len(pieces)]

\* Lines 35-40: Base64ImageField.to_internal_value. Line 37 unpacks the
\* split into exactly two names (ValueError otherwise); line 39 decodes
\* (binascii.Error on a payload b64decode rejects).
Base64ImageField_to_internal_value(value, isImage) ==
    IF value.type = "str" /\ startswith(value.text, DataImage)
      THEN LET pieces == split(value.text, Base64Sep) IN
           IF Len(pieces) # 2 THEN Raised("ValueError")
           ELSE IF ~B64Valid(pieces[2]) THEN Raised("binascii.Error")
           ELSE ImageField_to_internal_value(
                    ContentFile(b64decode(pieces[2]),
                                TempDot \o Extension(pieces[1])),
                    isImage)
      ELSE ImageField_to_internal_value(value, isImage)

\* A file name's extension: what follows its last dot.
NameExtension(name) ==
    LET dots == {i \in 1..Len(name) : name[i] = "."} IN
    IF dots = {} THEN <<>>
    ELSE SubSeq(name, (CHOOSE i \in dots : \A j \in dots : j <= i) + 1, Len(name))

ByteValues == {0, 77, 255}
\* Characters of a MIME subtype (png, svg+xml, vnd.microsoft.icon).
ExtChars == {"p", "+", "."}
ImageBytes == SeqsUpTo(ByteValues, MaxBytes)
ImageExts == SeqsUpTo(ExtChars, MaxExtLen) \ {<<>>}

\* The values a client may send, by how they are put together from a MIME
\* subtype ext and image bytes.
WireImage(form, ext, bytes) ==
    LET payload == b64encode(bytes)
        uri == DataImage \o Slash \o ext
    IN CASE form = "datauri" -> Str(uri \o Base64Sep \o payload)
         [] form = "truncated" ->
              Str(uri \o Base64Sep \o SubSeq(payload, 1, Len(payload) - 1))
         [] form = "no_separator" -> Str(uri \o payload)
         [] form = "two_separators" ->
              Str(uri \o Base64Sep \o payload \o Base64Sep \o payload)
         [] form = "url" -> Str(<<"/", "m", "e", "d", "i", "a", "/">> \o ext)
         [] OTHER -> ContentFile(bytes, <<"a", ".">> \o ext)

ImageForms ==
    {"datauri", "truncated", "no_separator", "two_separators", "url", "upload"}

NoUpload == Str(<<>>)
NoParts == [form |-> "none", ext |-> <<>>, bytes |-> <<>>, isImage |-> FALSE]
NoResult == [status |-> "pending", file |-> Str(<<>>)]

ImageIdle == imgData = NoUpload /\ imgParts = NoParts /\ imgResult = NoResult

ImageInit ==
    /\ imgParts \in [form : ImageForms, ext : ImageExts, bytes : ImageBytes,
                     isImage : BOOLEAN]
    /\ imgParts.form = "truncated" => imgParts.bytes # <<>>
    /\ imgData = WireImage(imgParts.form, imgParts.ext, imgParts.bytes)
    /\ imgResult = NoResult

\* The field is handed the value.
DecodeImage ==
    /\ imgResult.status = "pending"
    /\ imgParts.form # "none"
    /\ imgResult' = Base64ImageField_to_internal_value(imgData, imgParts.isImage)
    /\ UNCHANGED <<store, nextId, serial, deletes, locals, imgData, imgParts,
                   rendering>>

(* ------------------------- user representation ------------------------- *)

\* UserSerializer.Meta.fields (lines 23-31).
UserFields ==
    {"email", "id", "username", "first_name", "last_name", "is_subscribed",
     "avatar"}

UserRow(name, id, subscribed, avatar) ==
    [email |-> name, id |-> id, username |-> name, first_name |-> name,
     last_name |-> name, is_subscribed |-> subscribed, avatar |-> avatar]

UserRows ==
    {UserRow("alice", "1", s, a) : s \in {"true", "false"}, a \in {"", "a.png"}}
    \cup
    {UserRow("bob", "2", s, a) : s \in {"true", "false"}, a \in {"", "b.png"}}

Representation(fields) == [status |-> "ok", user |-> fields]
NotAuthenticated == [status |-> "NotAuthenticated", user |-> {}]

\* UserSerializer.to_representation (the framework's, over Meta.fields):
\* every field of the instance, as <<name, value>> pairs.
UserSerializer_to_representation(instance) ==
    Representation({<<f, instance[f]>> : f \in UserFields})

\* UserMeSerializer.to_representation without the is_authenticated test.
UserMeSerializer_unguarded(instance, requester) ==
    UserSerializer_to_representation(instance)

\* Lines 63-67: UserMeSerializer.to_representation.
UserMeSerializer_to_representation(instance, requester) ==
    IF is_authenticated(requester)
      THEN UserSerializer_to_representation(instance)
      ELSE NotAuthenticated

\* Lines 203-213: UserReadSerializer overrides nothing of the rendering.
UserReadSerializer_to_representation(instance, requester) ==
    UserSerializer_to_representation(instance)

UserSerializers == {"UserSerializer", "UserMeSerializer", "UserReadSerializer"}
RecipeSerializers ==
    {"RecipeCreateSerializer", "RecipeRetrieveSerializer",
     "RecipeUpdateSerializer"}

\* The serializer a recipe serializer renders its author with: line 159,
\* inherited by RecipeUpdateSerializer, and line 217.
AuthorSerializer(serializer) ==
    IF serializer = "RecipeRetrieveSerializer"
      THEN "UserReadSerializer"
      ELSE "UserMeSerializer"

RenderWith(serializer, instance, requester) ==
    CASE serializer = "UserMeSerializer" ->
           UserMeSerializer_to_representation(instance, requester)
      [] serializer = "UserReadSerializer" ->
           UserReadSerializer_to_representation(instance, requester)
      [] OTHER -> UserSerializer_to_representation(instance)

NoView == [serializer |-> "none", requester |-> Anonymous,
           instance |-> UserRow("", "", "", "")]
NoResponse == [status |-> "pending", user |-> {}]

RenderIdle == view = NoView /\ response = NoResponse

RenderInit ==
    /\ view \in [serializer : UserSerializers \cup RecipeSerializers,
                 requester : Requesters, instance : UserRows]
    /\ response = NoResponse

\* A user is rendered by one of the user serializers.
RenderUser ==
    /\ response.status = "pending"
    /\ view.serializer \in UserSerializers
    /\ response' = RenderWith(view.serializer, view.instance, view.requester)
    /\ UNCHANGED <<store, nextId, serial, deletes, locals, imageField, view>>

\* A recipe whose author is the instance is rendered by one of the recipe
\* serializers: the nested author field is rendered by its serializer, and
\* an exception it raises ends the rendering of the recipe.
RenderRecipe ==
    /\ response.status = "pending"
    /\ view.serializer \in RecipeSerializers
    /\ response' = RenderWith(AuthorSerializer(view.serializer), view.instance,
                              view.requester)
    /\ UNCHANGED <<store, nextId, serial, deletes, locals, imageField, view>>

(* --------------------------- specification ----------------------------- *)

InitStore ==
    /\ tags = {[id |-> t, name |-> TagNames[t], slug |-> TagNames[t]] : t \in TagIds}
    /\ ingredients = {[id |-> g] : g \in IngredientIds}
    /\ recipes = {}
    /\ amounts = {}
    /\ tagLinks = {}
    /\ ingLinks = {}
    /\ nextId = [recipe |-> 1, amount |-> 1, tagLink |-> 1, ingLink |-> 1]
    /\ deletes = 0

InitRequests ==
    /\ pc = [r \in Requests |-> "idle"]
    /\ req = [r \in Requests |-> NoRequest]
    /\ data = [r \in Requests |-> NoData]
    /\ recipe = [r \in Requests |-> 0]
    /\ idx = [r \in Requests |-> 0]
    /\ current = [r \in Requests |-> 0]
    /\ outcome = [r \in Requests |-> "none"]
    /\ created = [r \in Requests |-> {}]

\* Requests overlap: the web server handles several at once.
Init == InitStore /\ InitRequests /\ serial = FALSE /\ ImageIdle /\ RenderIdle

\* Requests arrive one after another.
SeqInit == InitStore /\ InitRequests /\ serial = TRUE /\ ImageIdle /\ RenderIdle

Next ==
    \/ \E r \in Requests : SubmitCreate(r)
    \/ \E r \in Requests : CreateRecipe(r)
    \/ \E r \in Requests : TagGet(r)
    \/ \E r \in Requests : TagCreate(r)
    \/ \E r \in Requests : TagReget(r)
    \/ \E r \in Requests : TagLink(r)
    \/ \E r \in Requests : AmountGet(r)
    \/ \E r \in Requests : AmountCreate(r)
    \/ \E r \in Requests : AmountReget(r)
    \/ \E r \in Requests : IngredientLink(r)
    \/ \E r \in Requests : SubmitUpdate(r)
    \/ \E r \in Requests : SubmitRoundTrip(r)
    \/ \E r \in Requests : UpdateRecipe(r)
    \/ \E t \in TagIds : DeleteTag(t)
    \/ \E g \in IngredientIds : DeleteIngredient(g)

Spec == Init /\ [][Next]_vars

\* One request at a time and no deletion: every get() finds what validation
\* found, so the create and re-get statements of Tag.objects.get_or_create
\* and the re-get of AmountOfIngredient.objects.get_or_create are never run.
SeqNext ==
    \/ \E r \in Requests : SubmitCreate(r)
    \/ \E r \in Requests : CreateRecipe(r)
    \/ \E r \in Requests : TagGet(r)
    \/ \E r \in Requests : TagLink(r)
    \/ \E r \in Requests : AmountGet(r)
    \/ \E r \in Requests : AmountCreate(r)
    \/ \E r \in Requests : IngredientLink(r)
    \/ \E r \in Requests : SubmitUpdate(r)
    \/ \E r \in Requests : SubmitRoundTrip(r)
    \/ \E r \in Requests : UpdateRecipe(r)

SeqSpec == SeqInit /\ [][SeqNext]_vars

\* The image field alone, on every value a client may send.
ImageSpecInit ==
    InitStore /\ InitRequests /\ serial = TRUE /\ RenderIdle /\ ImageInit

ImageNext == DecodeImage

ImageSpec == ImageSpecInit /\ [][ImageNext]_vars

\* The user representation alone, for every serializer, requester and user.
RenderNext == RenderUser \/ RenderRecipe

RenderSpecInit ==
    InitStore /\ InitRequests /\ serial = TRUE /\ ImageIdle /\ RenderInit

RenderSpec == RenderSpecInit /\ [][RenderNext]_vars

(* ------------------------------ claims --------------------------------- *)

Quiescent == \A r \in Requests : ~InFlight(r)

EmptyIngredients(r) == req[r].kind = "create" /\ req[r].ingredients = <<>>

\* C1: a creation request whose ingredient list is empty ends with a
\* ValidationError without entering create(): it inserts no row, it holds no
\* recipe, and the step that handles it leaves every table as it was.
C1_EmptyIngredientsRejected ==
    /\ [](\A r \in Requests :
            EmptyIngredients(r) =>
               /\ pc[r] = "done"
               /\ outcome[r] = "ValidationError"
               /\ recipe[r] = 0
               /\ created[r] = {})
    /\ [][\A r \in Requests :
            (pc[r] = "idle" /\ pc'[r] # "idle" /\ req'[r].kind = "create"
               /\ req'[r].ingredients = <<>>)
            => store' = store /\ nextId' = nextId]_vars

Successful == {r \in Requests : outcome[r] = "Created"}

\* The (ingredient, amount) entries of a request, in the order it sent them.
Entries(r) == data[r].ingredients

ReferencedPairs ==
    UNION {{Entries(r)[i] : i \in 1..Len(Entries(r))} : r \in Successful}

RowsFor(pair) ==
    {row \in amounts :
        row.ingredient = pair.ingredient /\ row.amount = pair.amount}

LinksOf(recipeId) == SortById({l \in ingLinks : l.recipe = recipeId})

\* C4: requests handled one after another. No two AmountOfIngredient rows
\* ever hold the same (ingredient, amount) pair; and once every request has
\* returned, the rows are exactly one per pair the created recipes name, and
\* each created recipe has one IngredientInRecipe row per entry of its
\* ingredient list, the i-th pointing at the row of the i-th entry's pair.
C4_OneAmountRowPerPair ==
    /\ \A a, b \in amounts :
          (a.ingredient = b.ingredient /\ a.amount = b.amount) => a.id = b.id
    /\ Quiescent =>
          /\ \A pair \in ReferencedPairs : Cardinality(RowsFor(pair)) = 1
          /\ Cardinality(amounts) = Cardinality(ReferencedPairs)
          /\ \A r \in Successful :
                LET links == LinksOf(recipe[r]) IN
                /\ Len(links) = Len(Entries(r))
                /\ \A i \in 1..Len(links) :
                      \E row \in RowsFor(Entries(r)[i]) :
                         row.id = links[i].amount_of_ingredient
          /\ Cardinality(ingLinks) =
                Cardinality({p \in Requests \X (1..MaxIngredientsPerRequest) :
                               p[1] \in Successful /\ p[2] <= Len(Entries(p[1]))})

\* C4 witness: two recipes were created one after the other, both naming the
\* same pair and the second naming it twice; the pair has one row and the
\* second recipe two join rows to it.
C4_Witness ==
    \E r, o \in Requests :
       /\ o < r
       /\ {r, o} \subseteq Successful
       /\ Quiescent
       /\ Len(Entries(o)) = 1
       /\ Len(Entries(r)) = 2
       /\ Entries(r)[1] = Entries(o)[1]
       /\ Entries(r)[2] = Entries(o)[1]
       /\ Cardinality(amounts) = 1
       /\ Cardinality(ingLinks) = 3

UserMeBased ==
    {"UserMeSerializer", "RecipeCreateSerializer", "RecipeUpdateSerializer"}

\* C8: rendering through UserMeSerializer, alone or as the author of a recipe
\* rendered by RecipeCreateSerializer or RecipeUpdateSerializer, raises
\* NotAuthenticated and yields no field for an anonymous requester, and yields
\* all seven fields of the user, with the user's values, for an authenticated
\* one.
C8_AnonymousGetsNoUserField ==
    (response.status # "pending" /\ view.serializer \in UserMeBased) =>
       IF view.requester = Anonymous
         THEN response.status = "NotAuthenticated" /\ response.user = {}
         ELSE /\ response.status = "ok"
              /\ {pair[1] : pair \in response.user} = UserFields
              /\ \A pair \in response.user : pair[2] = view.instance[pair[1]]

\* C8 witness: an anonymous requester was refused the author of a recipe
\* rendered by RecipeCreateSerializer.
C8_Witness ==
    /\ view.serializer = "RecipeCreateSerializer"
    /\ view.requester = Anonymous
    /\ response.status = "NotAuthenticated"

Decoded == imgResult.status # "pending"

\* C9 as claimed: every data URI data:image/<ext>;base64,<payload> with a
\* valid base64 payload comes back as a file with extension <ext> holding the
\* decoded payload; an uploaded file is passed on as it came; a data:image
\* string without exactly one ';base64,' separator raises an error and yields
\* no file.
C9_EveryDataUriYieldsFile ==
    Decoded =>
       /\ imgParts.form = "datauri" =>
             /\ imgResult.status = "file"
             /\ NameExtension(imgResult.file.name) = imgParts.ext
             /\ imgResult.file.bytes = imgParts.bytes
       /\ (imgParts.form = "upload" /\ imgResult.status = "file") =>
             imgResult.file = imgData
       /\ imgParts.form \in {"no_separator", "two_separators"} =>
             imgResult.status \notin {"file", "pending"}

\* C9, amended: a data URI data:image/<ext>;base64,<payload>, <ext> free of
\* '/', whose payload decodes to the bytes of an image (not empty, and taken
\* for an image by the parent ImageField) comes back as a file named
\* temp.<ext> holding exactly those bytes; when the decoded bytes are empty or no image, the parent's
\* ValidationError is raised instead and no file comes back. An uploaded file
\* is handed to the parent as it came and comes back as the very object that
\* was sent. A data:image string with no or with two ';base64,' separators
\* raises ValueError and yields no file.
C9_DataUriDecodes ==
    Decoded =>
       /\ imgParts.form = "datauri" =>
             /\ imgResult.status \in {"file", "ValidationError"}
             /\ (imgParts.isImage /\ imgParts.bytes # <<>>) =>
                   imgResult.status = "file"
             /\ imgResult.status = "file" =>
                   /\ imgResult.file.type = "file"
                   /\ imgResult.file.name = TempDot \o imgParts.ext
                   /\ imgResult.file.bytes = imgParts.bytes
       /\ imgParts.form = "upload" =>
             /\ imgResult.status \in {"file", "ValidationError"}
             /\ (imgParts.isImage /\ imgParts.bytes # <<>>) =>
                   imgResult.status = "file"
             /\ imgResult.status = "file" => imgResult.file = imgData
       /\ imgParts.form \in {"no_separator", "two_separators"} =>
             /\ imgResult.status = "ValueError"
             /\ imgResult.file.type # "file"

\* C9 witness: a data URI with a two-character subtype and three bytes, one
\* of them 255, was decoded to a file.
C9_Witness ==
    /\ imgParts.form = "datauri"
    /\ Len(imgParts.ext) = 2
    /\ Len(imgParts.bytes) = 3
    /\ imgParts.bytes[2] = 255
    /\ imgResult.status = "file"

\* The rows a request inserted that the store still holds.
Persisted(r) ==
    {w \in created[r] :
        CASE w[1] = "Recipe" -> \E row \in recipes : row.id = w[2]
          [] w[1] = "Tag" -> \E row \in tags : row.id = w[2]
          [] w[1] = "TagInRecipe" -> \E row \in tagLinks : row.id = w[2]
          [] w[1] = "AmountOfIngredient" -> \E row \in amounts : row.id = w[2]
          [] OTHER -> \E row \in ingLinks : row.id = w[2]}

FailedCreate(r) ==
    /\ req[r].kind = "create"
    /\ pc[r] = "done"
    /\ outcome[r] # "Created"

\* C2: a creation request that failed has left no row of its own in the
\* store: whatever it wrote before failing was rolled back.
C2_FailedCreateLeavesNothing ==
    \A r \in Requests : FailedCreate(r) => Persisted(r) = {}

\* C3: whatever the interleaving of the requests, no two AmountOfIngredient
\* rows hold the same (ingredient, amount) pair.
C3_NoDuplicateAmountRows ==
    \A a, b \in amounts :
       (a.ingredient = b.ingredient /\ a.amount = b.amount) => a.id = b.id

\* C5: with creation requests alone at work (nothing was deleted), every
\* Recipe row of the store has the authenticated requester of the request
\* that wrote it as author and at least one IngredientInRecipe row.
C5_RecipeHasAuthorAndIngredient ==
    deletes = 0 =>
       \A row \in recipes :
          /\ row.author \in Users
          /\ \E r \in Requests : recipe[r] = row.id /\ req[r].user = row.author
          /\ \E l \in ingLinks : l.recipe = row.id

ValidUpdate(r) ==
    /\ req[r].kind = "update"
    /\ pc[r] = "done"
    /\ outcome[r] # "ValidationError"

\* C6: an update whose payload passed validation succeeded, and the recipe's
\* tags are those of the request.
C6_UpdateReplacesAssociations ==
    \A r \in Requests :
       ValidUpdate(r) =>
          /\ outcome[r] = "Updated"
          /\ {l.tag : l \in {k \in tagLinks : k.recipe = req[r].target}}
                = {data[r].tags[i].id : i \in 1..Len(data[r].tags)}

\* C7: a recipe's rendered representation sent back as an update is accepted.
C7_RoundTripAccepted ==
    \A r \in Requests :
       (req[r].kind = "roundtrip" /\ pc[r] = "done") => outcome[r] = "Updated"

InitialTags ==
    {[id |-> t, name |-> TagNames[t], slug |-> TagNames[t]] : t \in TagIds}

\* C10: recipe creation adds no row to the Tag table: every Tag row is one of
\* the rows the store started with, name and slug included, and every
\* TagInRecipe row points at such a row.
C10_NoTagRowAdded ==
    /\ tags \subseteq InitialTags
    /\ \A l \in tagLinks : \E row \in InitialTags : row.id = l.tag

====
